---- MODULE Spec2Model ----
(***************************************************************************)
(* A model of poissonregime.py: the probability/significance conversions,  *)
(* the three-regime Poisson significance, the source-rate posterior and    *)
(* the count/fraction quantiles.  The library is stateless, so the state   *)
(* of the model is the record of the last call: the function, its          *)
(* arguments and the outcome (a value or the exception that ended it).     *)
(*                                                                         *)
(* Numbers.  A Python/NumPy value is [kind, dtype, v]: kind is "scalar",   *)
(* "ndarray" or "list", dtype the scalar's or the array's type, v the      *)
(* sequence of its elements (one element for a scalar).  An element is a   *)
(* record [c, m, e]:                                                       *)
(*   c = "nan", "pinf", "ninf"   the IEEE specials;                        *)
(*   c = "fix"    a real held in units of 10^-6 (m), for significances,    *)
(*                rates and fractions;                                     *)
(*   c = "int"    an integer m;                                            *)
(*   c = "rat"    a real held in quarters (m / 4), for alpha, k, exposure; *)
(*   c = "lo"     a double 0 < p <= 1/2, p = m * 2^e, m in [2^27, 2^28);   *)
(*   c = "hi"     a double 1/2 < p < 1, held by its distance to one,       *)
(*                p = 1 - m * 2^e, a multiple of 2^-53 as in IEEE;         *)
(*   c = "zero", "one", "neg", "gt1"   p = 0, p = 1, some p < 0, p > 1;    *)
(*   c = "density"   a value of the posterior's closed form, not computed. *)
(*                                                                         *)
(* The SciPy functions the module calls are computed from their            *)
(* definitions: ndtr and ndtri from a table of the normal tail with a      *)
(* first-order step to the nearest row, poisson.sf(n, mu) = P(X > n) from  *)
(* the Poisson sum in units of 2^-30, gammainccinv and betaincinv by       *)
(* inverting the Poisson and binomial sums on a grid, and                  *)
(* li_ma_significance from its closed form with a table of logarithms.     *)
(***************************************************************************)
EXTENDS Integers, Sequences, FiniteSets, TLC

VARIABLES fn, args, out

vars == <<fn, args, out>>

-----------------------------------------------------------------------------
(* Bounds of the model. *)

\* longest array passed to a function
MaxLen == 3
\* largest observed count n (and number of trials)
MaxN == 3
\* largest expected background count b
MaxB == 3
\* largest |z| sampled for the conversions, in half sigmas (7 sigma = 14)
MaxHalfSigma == 14

-----------------------------------------------------------------------------
(* Elements. *)

Pow2(s) == 2^s

Num(c, m, e) == [c |-> c, m |-> m, e |-> e]
NaN == Num("nan", 0, 0)
PInf == Num("pinf", 0, 0)
NInf == Num("ninf", 0, 0)
Fix(v) == Num("fix", v, 0)
Int_(v) == Num("int", v, 0)
Rat(q) == Num("rat", q, 0)
PZero == Num("zero", 0, 0)
POne == Num("one", 0, 0)
PNeg == Num("neg", 0, 0)
PGt1 == Num("gt1", 0, 0)

\* one unit of a "fix" element is 10^-6
Micro == 10^6
\* the tests' absolute tolerance, 1e-5, in units of 10^-6 and of 2^-30
AtolMicro == 10
Atol30 == Pow2(30) \div 10^5
MantLo == 2^27
MantHi == 2^28

\* m * 2^s rounded toward zero, for an m < 2^28 and a result that fits
Shift(m, s) ==
  IF s >= 0 THEN m * Pow2(s)
  ELSE IF -s >= 30 THEN 0 ELSE m \div Pow2(-s)

\* m / 2^s rounded to nearest, ties to even (the IEEE default rounding)
RoundShift(m, s) ==
  IF s <= 0 THEN m
  ELSE IF s >= 30 THEN 0
  ELSE LET d == Pow2(s)
           q == m \div d
           r == m % d
       IN IF 2 * r > d \/ (2 * r = d /\ q % 2 = 1) THEN q + 1 ELSE q

RECURSIVE Norm(_, _)
\* the normalised (mantissa, exponent) of m * 2^e, m > 0
Norm(m, e) ==
  IF m >= MantHi THEN Norm(m \div 2, e + 1)
  ELSE IF m < MantLo THEN Norm(m * 2, e - 1)
  ELSE <<m, e>>

Lo(m, e) == LET n == Norm(m, e) IN Num("lo", n[1], n[2])
Hi(m, e) == LET n == Norm(m, e) IN Num("hi", n[1], n[2])

IsProb(x) == x.c \in {"lo", "hi", "zero", "one", "neg", "gt1"}

\* the position of a probability class on the real line
Rank(x) ==
  CASE x.c = "neg" -> 0
    [] x.c = "zero" -> 1
    [] x.c = "lo" -> 2
    [] x.c = "hi" -> 3
    [] x.c = "one" -> 4
    [] x.c = "gt1" -> 5

\* a <= b on doubles holding probabilities; a comparison with NaN is false
PLeq(a, b) ==
  /\ a.c # "nan" /\ b.c # "nan"
  /\ \/ Rank(a) < Rank(b)
     \/ /\ Rank(a) = Rank(b)
        /\ CASE a.c = "lo" -> a.e < b.e \/ (a.e = b.e /\ a.m <= b.m)
             [] a.c = "hi" -> a.e > b.e \/ (a.e = b.e /\ a.m >= b.m)
             [] OTHER -> TRUE

\* the smallest positive normal double, 2^-1022 (np.finfo(float).tiny)
tiny == Lo(MantLo, -1049)
\* the smallest positive subnormal double, 2^-1074
SubMin == Lo(MantLo, -1101)

\* a probability in units of 2^-30, for comparisons within a tolerance
ToFix30(p) ==
  CASE p.c = "zero" -> 0
    [] p.c = "neg" -> -1
    [] p.c = "lo" -> Shift(p.m, p.e + 30)
    [] p.c = "hi" -> Pow2(30) - Shift(p.m, p.e + 30)
    [] p.c = "one" -> Pow2(30)
    [] p.c = "gt1" -> Pow2(30) + 1

Abs(x) == IF x < 0 THEN -x ELSE x

\* -x on a "fix" element or an IEEE special
Neg(x) ==
  CASE x.c = "fix" -> Fix(-x.m)
    [] x.c = "pinf" -> NInf
    [] x.c = "ninf" -> PInf
    [] OTHER -> x

-----------------------------------------------------------------------------
(* The standard normal distribution (scipy.special.ndtr, ndtri).           *)
(* Row i tabulates the upper tail T = Phi(-z) at the abscissa RowZ(i)      *)
(* (units of 10^-6) as RowM(i) * 2^RowE(i), and RowSlope(i), the density   *)
(* at z in mantissa units per 10^-6 sigma.  Rows 0..16 are z = 0, 0.5, ..  *)
(* 8; rows 17 and 18 the quantiles of 0.1 and 0.01; rows 19..22 the        *)
(* abscissae 37.5 .. 39 at which the tail leaves the double range.  Both   *)
(* functions are exact at the rows and of first order up to TaylorMax      *)
(* around them, where they are inverse to each other up to the rounding of *)
(* the double; further from the rows they are not accurate.                *)
(***************************************************************************)

RowZ(i) ==
  CASE i <= 16 -> i * 500000
    [] i = 17 -> 1281552
    [] i = 18 -> 2326348
    [] i = 19 -> 37500000
    [] i = 20 -> 38000000
    [] i = 21 -> 38500000
    [] OTHER -> 39000000

RowM(i) ==
  CASE i = 0 -> 134217728 [] i = 1 -> 165644830 [] i = 2 -> 170354782
    [] i = 3 -> 143467372 [] i = 4 -> 195422145 [] i = 5 -> 213362476
    [] i = 6 -> 185528573 [] i = 7 -> 255778377 [] i = 8 -> 139291595
    [] i = 9 -> 239089991 [] i = 10 -> 161370489 [] i = 11 -> 171042773
    [] i = 12 -> 142182264 [] i = 13 -> 185205337 [] i = 14 -> 188866996
    [] i = 15 -> 150685599 [] i = 16 -> 188016997 [] i = 17 -> 214748201
    [] i = 18 -> 171798634 [] i = 19 -> 138898764 [] i = 20 -> 233606881
    [] i = 21 -> 153018573 [] OTHER -> 156146410

RowE(i) ==
  CASE i = 0 -> -28 [] i = 1 -> -29 [] i = 2 -> -30 [] i = 3 -> -31
    [] i = 4 -> -33 [] i = 5 -> -35 [] i = 6 -> -37 [] i = 7 -> -40
    [] i = 8 -> -42 [] i = 9 -> -46 [] i = 10 -> -49 [] i = 11 -> -53
    [] i = 12 -> -57 [] i = 13 -> -62 [] i = 14 -> -67 [] i = 15 -> -72
    [] i = 16 -> -78 [] i = 17 -> -31 [] i = 18 -> -34 [] i = 19 -> -1048
    [] i = 20 -> -1076 [] i = 21 -> -1103 [] OTHER -> -1131

RowSlope(i) ==
  CASE i = 0 -> 107 [] i = 1 -> 189 [] i = 2 -> 260 [] i = 3 -> 278
    [] i = 4 -> 464 [] i = 5 -> 602 [] i = 6 -> 609 [] i = 7 -> 960
    [] i = 8 -> 589 [] i = 9 -> 1125 [] i = 10 -> 837 [] i = 11 -> 970
    [] i = 12 -> 876 [] i = 13 -> 1231 [] i = 14 -> 1348 [] i = 15 -> 1150
    [] i = 16 -> 1527 [] i = 17 -> 377 [] i = 18 -> 458 [] i = 19 -> 5212
    [] i = 20 -> 8883 [] i = 21 -> 5895 [] OTHER -> 6094

Rows == 0 .. 22

\* the furthest a first-order step leaves a tabulated abscissa (10^-6 sigma)
TaylorMax == Micro \div 10
\* half the spacing of the rows 0 .. 16
HalfStep == Micro \div 4

Clamp(x, lo, hi) == IF x < lo THEN lo ELSE IF x > hi THEN hi ELSE x

\* the row whose abscissa is nearest to a >= 0 (the lower one on a tie)
NearestRowZ(a) ==
  CHOOSE i \in Rows :
    \A j \in Rows :
      \/ Abs(RowZ(i) - a) < Abs(RowZ(j) - a)
      \/ (Abs(RowZ(i) - a) = Abs(RowZ(j) - a) /\ RowZ(i) <= RowZ(j))

\* a monotone key of m * 2^e, m in [2^27, 2^28): 512 * log2, linear in the
\* mantissa within an octave
LogKey(m, e) == e * 512 + (m \div Pow2(18))

\* the row whose tail is nearest to m * 2^e (the lower abscissa on a tie)
NearestRowT(m, e) ==
  LET d(i) == Abs(LogKey(RowM(i), RowE(i)) - LogKey(m, e))
  IN CHOOSE i \in Rows :
       \A j \in Rows : d(i) < d(j) \/ (d(i) = d(j) /\ RowZ(i) <= RowZ(j))

\* a double result 0 < m * 2^e <= 1/2: below half the smallest subnormal
\* it underflows to zero
RoundLo(m, e) ==
  LET n == Norm(m, e)
  IN IF n[2] < SubMin.e - 1 THEN PZero ELSE Num("lo", n[1], n[2])

\* the double nearest to 1 - m * 2^e: doubles in [1/2, 1) are the multiples
\* of 2^-53
RoundHi(m, e) ==
  LET r == RoundShift(m, (-53) - e)
  IN IF r = 0 THEN POne
     ELSE IF e >= -53 THEN Hi(m, e) ELSE Hi(r, -53)

\* the upper tail Phi(-a) at a >= 0, as <<mantissa, exponent>>: first order
\* about the nearest tabulated abscissa
UpperTail(a) ==
  LET i == NearestRowZ(a)
      d == Clamp(a - RowZ(i), -TaylorMax, TaylorMax)
      m == RowM(i) - RowSlope(i) * d
  IN <<IF m < 1 THEN 1 ELSE m, RowE(i)>>

\* scipy.special.ndtr: Phi(x)
ndtr(x) ==
  CASE x.c = "nan" -> NaN
    [] x.c = "pinf" -> POne
    [] x.c = "ninf" -> PZero
    [] x.c = "fix" ->
         LET t == UpperTail(Abs(x.m))
         IN IF x.m <= 0 THEN RoundLo(t[1], t[2]) ELSE RoundHi(t[1], t[2])

\* the z >= 0 with Phi(-z) = m * 2^e (units of 10^-6): first order about the
\* row with the nearest tail
TailQuantile(m, e) ==
  LET i == NearestRowT(m, e)
      de == e - RowE(i)
      dm == RowM(i) - Shift(m, de)
      s == RowSlope(i)
      dz == IF dm >= 0 THEN (2 * dm + s) \div (2 * s)
            ELSE -((2 * (-dm) + s) \div (2 * s))
  IN IF Abs(de) > 2 THEN RowZ(i)
     ELSE LET z == RowZ(i) + Clamp(dz, -HalfStep, HalfStep)
          IN IF z < 0 THEN 0 ELSE z

\* scipy.special.ndtri: the z with Phi(z) = p
ndtri(p) ==
  CASE p.c = "lo" -> Fix(-TailQuantile(p.m, p.e))
    [] p.c = "hi" -> Fix(TailQuantile(p.m, p.e))
    [] p.c = "zero" -> NInf
    [] p.c = "one" -> PInf
    [] OTHER -> NaN

-----------------------------------------------------------------------------
(* Fixed point arithmetic on [0, 1] in units of 2^-30. *)

One30 == Pow2(30)

\* a * b / 2^30 for 0 <= a, b <= 2^30, by halves of 15 bits
MulQ30(a, b) ==
  LET h == Pow2(15)
      ah == a \div h
      al == a % h
      bh == b \div h
      bl == b % h
  IN ah * bh + (ah * bl + al * bh) \div h + (al * bl) \div One30

\* t * n / d for 0 <= t <= 2^30 and a result that fits
MulDiv(t, n, d) == (t \div d) * n + ((t % d) * n) \div d

RECURSIVE ExpNegQuarter(_)
\* exp(-j / 4) in units of 2^-30
ExpNegQuarter(j) ==
  IF j = 0 THEN One30
  ELSE IF j % 2 = 1 THEN MulQ30(836230973, ExpNegQuarter(j - 1))
  ELSE LET h == ExpNegQuarter(j \div 2) IN MulQ30(h, h)

\* the double nearest to v * 2^-30, 0 <= v <= 2^30
FromFix30(v) ==
  IF v <= 0 THEN PZero
  ELSE IF v >= One30 THEN POne
  ELSE IF 2 * v <= One30 THEN Lo(v, -30)
  ELSE Hi(One30 - v, -30)

-----------------------------------------------------------------------------
(* The Poisson distribution (scipy.stats.poisson), mean muQ / 4. *)

RECURSIVE PoissonTerm(_, _)
\* P(X = i) in units of 2^-30: exp(-mu) * mu^i / i!
PoissonTerm(i, muQ) ==
  IF i = 0 THEN ExpNegQuarter(muQ)
  ELSE MulDiv(PoissonTerm(i - 1, muQ), muQ, 4 * i)

RECURSIVE PoissonCdf30(_, _)
\* P(X <= n) in units of 2^-30
PoissonCdf30(n, muQ) ==
  IF n < 0 THEN 0
  ELSE LET c == PoissonCdf30(n - 1, muQ) + PoissonTerm(n, muQ)
       IN IF c > One30 THEN One30 ELSE c

\* scipy.stats.poisson.sf(n, mu): the survival function P(X > n) = 1 - cdf(n)
poisson_sf(n, muQ) ==
  IF muQ < 0 THEN NaN
  ELSE IF n < 0 THEN POne
  ELSE IF muQ = 0 THEN PZero
  ELSE FromFix30(One30 - PoissonCdf30(n, muQ))

-----------------------------------------------------------------------------
(* The inverse incomplete gamma and beta functions (scipy.special).        *)
(* For an integer shape a the regularized upper incomplete gamma function  *)
(* Q(a, x) is the Poisson probability P(X <= a - 1) at mean x, and for     *)
(* integer shapes the regularized incomplete beta function I_x(a, b) is    *)
(* the binomial probability P(X >= a) of a + b - 1 trials at probability   *)
(* x.  Each inverse is the root rounded up to a grid: quarters for the     *)
(* gamma function, 64ths for the beta function.                            *)
(***************************************************************************)

\* the end of the gamma grid, 24, in quarters
GammaGridMax == 4 * 24
BetaGrid == Pow2(6)

\* Q(a, j / 4) as a double
GammaQ(a, j) == IF j = 0 THEN POne ELSE FromFix30(PoissonCdf30(a - 1, j))

RECURSIVE GammaSearch(_, _, _, _)
\* the least j in lo .. hi with Q(a, j / 4) <= q, by bisection (Q falls in j);
\* hi if there is none below it
GammaSearch(a, q, lo, hi) ==
  IF lo >= hi THEN hi
  ELSE LET mid == (lo + hi) \div 2
       IN IF PLeq(GammaQ(a, mid), q)
          THEN GammaSearch(a, q, lo, mid)
          ELSE GammaSearch(a, q, mid + 1, hi)

\* scipy.special.gammainccinv(a, q): the x with Q(a, x) = q
gammainccinv(a, q) ==
  IF a <= 0 \/ q.c \in {"nan", "neg", "gt1"} THEN NaN
  ELSE IF q.c = "zero" THEN PInf
  ELSE IF q.c = "one" THEN Fix(0)
  ELSE Fix(GammaSearch(a, q, 0, GammaGridMax) * (Micro \div 4))

RECURSIVE Power(_, _)
Power(x, n) == IF n = 0 THEN 1 ELSE x * Power(x, n - 1)

RECURSIVE Binomial(_, _)
Binomial(n, i) ==
  IF i = 0 \/ i = n THEN 1 ELSE Binomial(n - 1, i - 1) + Binomial(n - 1, i)

RECURSIVE BinomialTail(_, _, _)
\* P(X >= a) of n trials at probability j / 64, in units of 64^-n
BinomialTail(a, n, j) ==
  IF a > n THEN 0
  ELSE Binomial(n, a) * Power(j, a) * Power(BetaGrid - j, n - a)
         + BinomialTail(a + 1, n, j)

\* I_x(a, b) at x = j / 64 as a double
BetaI(a, b, j) ==
  LET n == a + b - 1
  IN FromFix30(BinomialTail(a, n, j) * Pow2(30 - 6 * n))

RECURSIVE BetaSearch(_, _, _, _, _)
\* the least j in lo .. hi with I_(j / 64)(a, b) >= q, by bisection (I rises
\* in j); hi if there is none below it
BetaSearch(a, b, q, lo, hi) ==
  IF lo >= hi THEN hi
  ELSE LET mid == (lo + hi) \div 2
       IN IF PLeq(q, BetaI(a, b, mid))
          THEN BetaSearch(a, b, q, lo, mid)
          ELSE BetaSearch(a, b, q, mid + 1, hi)

\* scipy.special.betaincinv(a, b, q): the x with I_x(a, b) = q
betaincinv(a, b, q) ==
  IF a <= 0 \/ b <= 0 \/ q.c \in {"nan", "neg", "gt1"} THEN NaN
  ELSE IF q.c = "zero" THEN Fix(0)
  ELSE IF q.c = "one" THEN Fix(Micro)
  ELSE Fix(BetaSearch(a, b, q, 0, BetaGrid) * (Micro \div BetaGrid))

-----------------------------------------------------------------------------
(* The Li & Ma (1983) significance, gamma_limits_sensitivity's             *)
(* li_ma_significance(N_on, N_off, alpha), alpha = a16 / 16.               *)

\* ln(i) in units of 10^-6, i in 1 .. 64
Ln(i) ==
  CASE i = 1 -> 0 [] i = 2 -> 693147 [] i = 3 -> 1098612 [] i = 4 -> 1386294
    [] i = 5 -> 1609438 [] i = 6 -> 1791759 [] i = 7 -> 1945910 [] i = 8 -> 2079442
    [] i = 9 -> 2197225 [] i = 10 -> 2302585 [] i = 11 -> 2397895 [] i = 12 -> 2484907
    [] i = 13 -> 2564949 [] i = 14 -> 2639057 [] i = 15 -> 2708050 [] i = 16 -> 2772589
    [] i = 17 -> 2833213 [] i = 18 -> 2890372 [] i = 19 -> 2944439 [] i = 20 -> 2995732
    [] i = 21 -> 3044522 [] i = 22 -> 3091042 [] i = 23 -> 3135494 [] i = 24 -> 3178054
    [] i = 25 -> 3218876 [] i = 26 -> 3258097 [] i = 27 -> 3295837 [] i = 28 -> 3332205
    [] i = 29 -> 3367296 [] i = 30 -> 3401197 [] i = 31 -> 3433987 [] i = 32 -> 3465736
    [] i = 33 -> 3496508 [] i = 34 -> 3526361 [] i = 35 -> 3555348 [] i = 36 -> 3583519
    [] i = 37 -> 3610918 [] i = 38 -> 3637586 [] i = 39 -> 3663562 [] i = 40 -> 3688879
    [] i = 41 -> 3713572 [] i = 42 -> 3737670 [] i = 43 -> 3761200 [] i = 44 -> 3784190
    [] i = 45 -> 3806662 [] i = 46 -> 3828641 [] i = 47 -> 3850148 [] i = 48 -> 3871201
    [] i = 49 -> 3891820 [] i = 50 -> 3912023 [] i = 51 -> 3931826 [] i = 52 -> 3951244
    [] i = 53 -> 3970292 [] i = 54 -> 3988984 [] i = 55 -> 4007333 [] i = 56 -> 4025352
    [] i = 57 -> 4043051 [] i = 58 -> 4060443 [] i = 59 -> 4077537 [] i = 60 -> 4094345
    [] i = 61 -> 4110874 [] i = 62 -> 4127134 [] i = 63 -> 4143135 [] i = 64 -> 4158883

RECURSIVE SqrtSearch(_, _, _)
\* the largest r in lo .. hi with r * r <= x
SqrtSearch(lo, hi, x) ==
  IF lo >= hi THEN lo
  ELSE LET mid == (lo + hi + 1) \div 2
       IN IF mid * mid <= x THEN SqrtSearch(mid, hi, x)
          ELSE SqrtSearch(lo, mid - 1, x)

ISqrt(x) == SqrtSearch(0, 46340, x)

\* sqrt(2 * (N_on ln((1 + alpha) / alpha * N_on / (N_on + N_off))
\*           + N_off ln((1 + alpha) * N_off / (N_on + N_off)))),
\* with NaN (0 * log 0, the root of a negative) and every N_on below
\* alpha * N_off set to 0; in units of 10^-6, to the nearest 10^-3 below
li_ma_significance(N_on, N_off, a16) ==
  IF N_on = 0 \/ N_off = 0 \/ 16 * N_on < a16 * N_off THEN Fix(0)
  ELSE LET t1 == N_on * (Ln(16 + a16) - Ln(a16) + Ln(N_on) - Ln(N_on + N_off))
           t2 == N_off * (Ln(16 + a16) - Ln(16) + Ln(N_off) - Ln(N_on + N_off))
           ts == t1 + t2
       IN IF ts < 0 THEN Fix(0) ELSE Fix(1000 * ISqrt(2 * ts))

-----------------------------------------------------------------------------
(* Python values and outcomes. *)

PV(kind, dtype, v) == [kind |-> kind, dtype |-> dtype, v |-> v]
Scalar(dtype, x) == PV("scalar", dtype, <<x>>)
NdArray(dtype, v) == PV("ndarray", dtype, v)
PyList(v) == PV("list", "object", v)

\* a call that returned v, having called the collaborators in calls; aux
\* holds the arguments it passed on that the model keeps for inspection
OkAux(v, calls, aux) == [status |-> "ok", v |-> v, calls |-> calls, aux |-> aux]
Ok(v, calls) == OkAux(v, calls, <<>>)
\* a call ended by exception exc: no value is returned
Raise(exc, calls) == [status |-> exc, v |-> <<>>, calls |-> calls, aux |-> <<>>]

\* the sequences over S of length 1 .. n
SeqsUpTo(S, n) == UNION {[1 .. l -> S] : l \in 1 .. n}

-----------------------------------------------------------------------------
(* poissonregime.py *)

\* the conversion without the sign flip
PlainNdtri(p) == ndtri(p)

NegNdtri(p) == Neg(ndtri(p))

\* the guard with the strict comparison pvalue < tiny
significance_from_pvalue_strict(pvalue) ==
  IF \E i \in 1 .. Len(pvalue.v) :
       PLeq(pvalue.v[i], tiny) /\ pvalue.v[i] # tiny
  THEN Raise("ArithmeticError", <<>>)
  ELSE Ok([i \in 1 .. Len(pvalue.v) |-> Neg(ndtri(pvalue.v[i]))], <<"ndtri">>)

significance_from_pvalue(pvalue) ==
  IF \E i \in 1 .. Len(pvalue.v) : PLeq(pvalue.v[i], tiny)
  THEN Raise("ArithmeticError", <<>>)
  ELSE Ok([i \in 1 .. Len(pvalue.v) |-> NegNdtri(pvalue.v[i])], <<"ndtri">>)

NdtrNeg(z) == ndtr(Neg(z))

\* the lower tail ndtr(zscore) in place of the upper tail ndtr(-zscore)
pvalue_from_significance_lower(zscore) ==
  Ok([i \in 1 .. Len(zscore.v) |-> ndtr(zscore.v[i])], <<"ndtr">>)

pvalue_from_significance(zscore) ==
  Ok([i \in 1 .. Len(zscore.v) |-> NdtrNeg(zscore.v[i])], <<"ndtr">>)

\* an "int" or "rat" element in quarters
Quarters(x) == IF x.c = "int" THEN 4 * x.m ELSE x.m

\* the i-th element of a value broadcast to a longer shape
At(x, i) == IF Len(x.v) = 1 THEN x.v[1] ELSE x.v[i]

Max(a, b) == IF a >= b THEN a ELSE b

\* NumPy broadcasting of one-dimensional shapes: equal, or one of them 1
Broadcastable(a, b) == Len(a.v) = Len(b.v) \/ Len(a.v) = 1 \/ Len(b.v) = 1

\* bool(k < 0): the truth value of an array of more than one element is
\* ambiguous and raises ValueError
TruthRaises(k) == k.kind = "ndarray" /\ Len(k.v) > 1

\* the Li & Ma magnitude taken with alpha in place of alpha * (k + 1)
significance_unscaled(n, b, alpha, k) ==
  LET muQ == Quarters(alpha.v[1]) * b.v[1].m
  IN IF TruthRaises(k) THEN Raise("ValueError", <<>>)
     ELSE IF Quarters(k.v[1]) < 0
     THEN LET sf == [i \in 1 .. Len(n.v) |-> poisson_sf(n.v[i].m, muQ)]
              r == significance_from_pvalue(PV(n.kind, "float64", sf))
          IN [status |-> r.status, v |-> r.v, aux |-> <<>>,
              calls |-> <<"poisson.sf", "significance_from_pvalue">> \o r.calls]
     ELSE LET sign(i) == IF 4 * n.v[i].m >= muQ THEN 1 ELSE -1
              mag(i) == li_ma_significance(n.v[i].m, b.v[1].m,
                                           4 * Quarters(alpha.v[1]))
          IN Ok([i \in 1 .. Len(n.v) |-> Fix(sign(i) * mag(i).m)],
                <<"li_ma_significance">>)

significance(n, b, alpha, k) ==
  LET muQ == Quarters(alpha.v[1]) * b.v[1].m
  IN IF TruthRaises(k) THEN Raise("ValueError", <<>>)
     ELSE IF Quarters(k.v[1]) < 0
     THEN LET sf == [i \in 1 .. Len(n.v) |-> poisson_sf(n.v[i].m, muQ)]
              r == significance_from_pvalue(PV(n.kind, "float64", sf))
          IN [status |-> r.status, v |-> r.v, aux |-> <<>>,
              calls |-> <<"poisson.sf", "significance_from_pvalue">> \o r.calls]
     ELSE LET sign(i) == IF 4 * n.v[i].m >= muQ THEN 1 ELSE -1
              a16 == Quarters(alpha.v[1]) * (Quarters(k.v[1]) + 4)
              mag(i) == li_ma_significance(n.v[i].m, b.v[1].m, a16)
          IN Ok([i \in 1 .. Len(n.v) |-> Fix(sign(i) * mag(i).m)],
                <<"li_ma_significance">>)

\* x / alpha's i-th element: a Python scalar divisor of zero is a
\* ZeroDivisionError (see DivisionRaises), a NumPy one gives infinity
DivByAlpha(x, alpha, i) ==
  LET a == Quarters(At(alpha, i))
  IN IF a = 0 THEN (IF x > 0 THEN PInf ELSE NInf)
     ELSE Fix((4 * x * Micro) \div a)

\* a division that gives infinity for every kind of zero
DivisionNeverRaises(alpha) == FALSE

\* 1. / alpha and -1 / alpha with alpha a Python int or float equal to 0
DivisionRaises(alpha) ==
  /\ alpha.kind = "scalar"
  /\ alpha.dtype \in {"int", "float"}
  /\ Quarters(alpha.v[1]) = 0

\* (1 + y) * nexp for nexp = nexp16 / 16 >= 0
OnePlusTimes(y, nexp16) ==
  CASE y.c = "fix" -> Fix(((Micro + y.m) \div 16) * nexp16)
    [] y.c = "nan" -> NaN
    [] OTHER -> IF nexp16 = 0 THEN NaN ELSE y

\* the value of the closed form: what the special functions make of their
\* arguments, which the model does not compute
Density == Num("density", 0, 0)

posterior(rate, n, b, alpha, exposure) ==
  LET nexp16(i) == Quarters(exposure.v[1]) * Quarters(At(rate, i))
      l == Max(Len(rate.v), Len(alpha.v))
  IN IF DivisionRaises(alpha) THEN Raise("ZeroDivisionError", <<"poisson.pmf">>)
     ELSE IF ~Broadcastable(rate, alpha) THEN Raise("ValueError", <<"poisson.pmf">>)
     ELSE OkAux([i \in 1 .. l |-> Density],
                <<"poisson.pmf", "hyperu", "hyp2f1", "gamma">>,
                [i \in 1 .. 2 * l |->
                   IF i <= l
                   THEN OnePlusTimes(DivByAlpha(1, alpha, i), nexp16(i))
                   ELSE DivByAlpha(-1, alpha, i - l)])

\* isinstance(k, (int, np.integer)) or
\* isinstance(k, np.ndarray) and k.dtype == int
\* (dtype int is the platform's default integer, int64)
IsIntegerTyped(k) ==
  \/ k.kind = "scalar" /\ k.dtype \in {"int", "np.int64", "np.int32"}
  \/ k.kind = "ndarray" /\ k.dtype = "int64"

\* np.all(q > 0) and np.all(q < 1); a comparison with NaN is false
AllAboveZero(q) ==
  \A i \in 1 .. Len(q.v) : q.v[i].c # "nan" /\ ~PLeq(q.v[i], PZero)
AllBelowOne(q) ==
  \A i \in 1 .. Len(q.v) : q.v[i].c # "nan" /\ ~PLeq(POne, q.v[i])

\* x / exposure for a "fix" x, exposure in quarters
DivExposure(x, exposure) ==
  IF x.c # "fix" THEN x
  ELSE IF Quarters(exposure.v[1]) = 0
  THEN (IF x.m = 0 THEN NaN ELSE IF x.m > 0 THEN PInf ELSE NInf)
  ELSE Fix((4 * x.m) \div Quarters(exposure.v[1]))

\* the default q: pvalue_from_significance([0, -1, +1])
DefaultQ ==
  NdArray("float64",
          pvalue_from_significance(PyList(<<Fix(0), Fix(-Micro), Fix(Micro)>>)).v)

\* the quantile taken with shape k in place of k + 1
uncertainties_rate_shape_k(k, q, exposure) ==
  IF ~IsIntegerTyped(k) THEN Raise("AssertionError", <<>>)
  ELSE IF ~AllAboveZero(q) THEN Raise("AssertionError", <<>>)
  ELSE IF ~AllBelowOne(q) THEN Raise("AssertionError", <<>>)
  ELSE IF ~Broadcastable(k, q) THEN Raise("ValueError", <<"gammainccinv">>)
  ELSE Ok([i \in 1 .. Max(Len(k.v), Len(q.v)) |->
             DivExposure(gammainccinv(At(k, i).m, At(q, i)), exposure)],
          <<"gammainccinv">>)

uncertainties_rate(k, q, exposure) ==
  IF ~IsIntegerTyped(k) THEN Raise("AssertionError", <<>>)
  ELSE IF ~AllAboveZero(q) THEN Raise("AssertionError", <<>>)
  ELSE IF ~AllBelowOne(q) THEN Raise("AssertionError", <<>>)
  ELSE IF ~Broadcastable(k, q) THEN Raise("ValueError", <<"gammainccinv">>)
  ELSE Ok([i \in 1 .. Max(Len(k.v), Len(q.v)) |->
             DivExposure(gammainccinv(At(k, i).m + 1, At(q, i)), exposure)],
          <<"gammainccinv">>)

uncertainties_fraction(k, n, q) ==
  IF ~IsIntegerTyped(k) THEN Raise("AssertionError", <<>>)
  ELSE IF ~IsIntegerTyped(n) THEN Raise("AssertionError", <<>>)
  ELSE IF ~Broadcastable(k, n) THEN Raise("ValueError", <<>>)
  ELSE IF \E i \in 1 .. Max(Len(k.v), Len(n.v)) : At(k, i).m > At(n, i).m
  THEN Raise("AssertionError", <<>>)
  ELSE IF ~AllAboveZero(q) THEN Raise("AssertionError", <<>>)
  ELSE IF ~AllBelowOne(q) THEN Raise("AssertionError", <<>>)
  ELSE LET l == Max(Len(k.v), Len(n.v))
       IN IF ~(l = Len(q.v) \/ l = 1 \/ Len(q.v) = 1)
          THEN Raise("ValueError", <<"betaincinv">>)
          ELSE Ok([i \in 1 .. Max(l, Len(q.v)) |->
                     betaincinv(At(k, i).m + 1, At(n, i).m + 1 - At(k, i).m,
                                At(q, i))],
                  <<"betaincinv">>)

-----------------------------------------------------------------------------
(* tests/test_funcs.py *)

\* numpy.testing.assert_allclose(actual, desired, atol=1e-5) on
\* significances: |actual - desired| <= atol + rtol * |desired| with the
\* default rtol of 1e-7; equal infinities and two NaN agree
AllCloseSig(actual, desired) ==
  IF actual.c = "fix" /\ desired.c = "fix"
  THEN Abs(actual.m - desired.m) <= AtolMicro + Abs(desired.m) \div 10^7
  ELSE actual = desired

\* the same on probabilities, in units of 2^-30
AllCloseProb(actual, desired) ==
  IF actual.c \in {"nan", "pinf", "ninf"} \/ desired.c \in {"nan", "pinf", "ninf"}
  THEN actual = desired
  ELSE Abs(ToFix30(actual) - ToFix30(desired))
         <= Atol30 + ToFix30(desired) \div 10^7

\* the outcome of a test body whose last line asserts that o is close to
\* the input: o is kept in v whether or not the assertion passes
Asserted(o, close) ==
  IF o.status # "ok" THEN o
  ELSE [o EXCEPT !.status = IF \A i \in 1 .. Len(o.v) : close[i]
                           THEN "ok" ELSE "AssertionError"]

test_sig(s) ==
  LET p == pvalue_from_significance(s)
      o == significance_from_pvalue(PV(s.kind, "float64", p.v))
  IN Asserted(o, [i \in 1 .. Len(o.v) |-> AllCloseSig(o.v[i], s.v[i])])

test_p(p) ==
  LET s == significance_from_pvalue(p)
      o == IF s.status = "ok"
           THEN pvalue_from_significance(PV(p.kind, "float64", s.v))
           ELSE s
  IN Asserted(o, [i \in 1 .. Len(o.v) |-> AllCloseProb(o.v[i], p.v[i])])

-----------------------------------------------------------------------------
(* Inputs. *)

RowLo(i) == Lo(RowM(i), RowE(i))
RowHi(i) == RoundHi(RowM(i), RowE(i))

\* the doubles 0.1, 0.01 and 0.99 of the tests' examples
P01 == Lo(214748365, -31)
P001 == Lo(171798692, -34)
P099 == Hi(171798692, -34)

SampleRows == 0 .. MaxHalfSigma

ProbSamples ==
  {NaN, PNeg, PZero, SubMin, RowLo(20), tiny, Lo(MantLo + 1, -1049),
   RowLo(19), POne, PGt1, P01, P001, P099}
  \cup {RowLo(i) : i \in SampleRows} \cup {RowHi(i) : i \in SampleRows}

ArrProbSamples ==
  {NaN, PZero, tiny, Lo(MantLo + 1, -1049), RowLo(2), RowHi(2)}

PvalueInputs ==
  {Scalar("float", p) : p \in ProbSamples}
  \cup {NdArray("float64", v) : v \in SeqsUpTo(ArrProbSamples, MaxLen)}

ZSamples ==
  {Fix(RowZ(i)) : i \in SampleRows} \cup {Fix(-RowZ(i)) : i \in SampleRows}
  \cup {Fix(RowZ(i)) : i \in 17 .. 22} \cup {NaN, PInf, NInf}

ArrZSamples == {Fix(0), Fix(-Micro), Fix(Micro), Fix(-7 * Micro), NaN}

ZscoreInputs ==
  {Scalar("float", z) : z \in ZSamples}
  \cup {NdArray("float64", v) : v \in SeqsUpTo(ArrZSamples, MaxLen)}
  \cup {PyList(v) : v \in SeqsUpTo(ArrZSamples, MaxLen)}

CountInputs ==
  {Scalar("int", Int_(n)) : n \in 0 .. MaxN}
  \cup {NdArray("int64", v) : v \in SeqsUpTo({Int_(0), Int_(MaxN)}, MaxLen)}

BackgroundInputs == {Scalar("int", Int_(b)) : b \in 0 .. MaxB}

\* alpha = 1/4, 1/2, 1
AlphaInputs == {Scalar("float", Rat(a)) : a \in {1, 2, 4}}

\* k = -1, -1/4, 0 (the default), 1/4, 1, and arrays of -1 and 1/4
KInputs ==
  {Scalar("int", Int_(0))}
  \cup {Scalar("float", Rat(k)) : k \in {-4, -1, 1, 4}}
  \cup {NdArray("float64", v) : v \in SeqsUpTo({Rat(-4), Rat(1)}, MaxLen)}

\* counts for the quantile functions: Python and NumPy integers, floats,
\* arrays of the default and of another integer dtype, float arrays, a list
QuantileCountInputs ==
  {Scalar("int", Int_(k)) : k \in -1 .. MaxN}
  \cup {Scalar("np.int32", Int_(1)), Scalar("np.int64", Int_(1)),
        Scalar("float", Int_(1))}
  \cup {NdArray("int64", v) : v \in SeqsUpTo({Int_(0), Int_(MaxN)}, MaxLen)}
  \cup {NdArray("int32", <<Int_(1), Int_(2)>>),
        NdArray("float64", <<Int_(1)>>), PyList(<<Int_(1)>>)}

\* the numbers of trials n for uncertainties_fraction
TrialInputs ==
  {Scalar("int", Int_(n)) : n \in 0 .. MaxN}
  \cup {Scalar("float", Int_(MaxN))}
  \cup {NdArray("int64", [i \in 1 .. l |-> Int_(MaxN)]) : l \in 1 .. MaxLen}
  \cup {NdArray("int32", <<Int_(MaxN), Int_(MaxN)>>)}

\* q = Phi(j), j in -3 .. 3, and values at and outside the ends of (0, 1)
QSamples ==
  {RowLo(2 * j) : j \in 0 .. 3} \cup {RowHi(2 * j) : j \in 1 .. 3}
  \cup {RowHi(MaxHalfSigma), PZero, POne, PNeg, PGt1, NaN}

QInputs ==
  {DefaultQ}
  \cup {Scalar("float", q) : q \in QSamples}
  \cup {NdArray("float64", v) :
          v \in {<<RowLo(2), RowHi(2)>>, <<RowLo(2), POne>>, <<PZero>>,
                 <<RowLo(0)>>}}

\* exposure = 1/2, 1 (the default), 2
ExposureInputs == {Scalar("float", Rat(x)) : x \in {2, 4, 8}}

\* significances and probabilities off the tabulated abscissae, within the
\* reach of the first-order step
OffRowZ ==
  {Fix(RowZ(i) - Micro \div 20) : i \in SampleRows \ {0}}
  \cup {Fix(Micro \div 20 - RowZ(i)) : i \in SampleRows \ {0}}
OffRowP ==
  {Lo(RowM(i) + Micro, RowE(i)) : i \in {2, 6, 10}}
  \cup {RoundHi(RowM(i) + Micro, RowE(i)) : i \in {2, 6, 10}}

\* the finite significances the tests draw, scalars and arrays
TestSigInputs ==
  {Scalar("float", z) : z \in (ZSamples \ {NaN, PInf, NInf}) \cup OffRowZ}
  \cup {NdArray("float64", v) :
          v \in SeqsUpTo({Fix(0), Fix(-Micro), Fix(Micro), Fix(-7 * Micro)},
                         MaxLen)}

\* the probabilities the tests draw: assume(p > 0), assume(p < 1)
TestPInputs ==
  {Scalar("float", p) :
     p \in (ProbSamples \ {NaN, PNeg, PZero, POne, PGt1}) \cup OffRowP}
  \cup {NdArray("float64", v) :
          v \in SeqsUpTo({RowLo(0), P001, P099, SubMin}, MaxLen)}

\* rate = 0, 1 and arrays of them
RateInputs ==
  {Scalar("float", Rat(r)) : r \in {0, 4}}
  \cup {NdArray("float64", v) : v \in SeqsUpTo({Rat(0), Rat(4)}, MaxLen)}

\* alpha for the posterior: Python and NumPy scalars and arrays, zero among
\* them
PosteriorAlphaInputs ==
  {Scalar("float", Rat(a)) : a \in {0, 1, 4}}
  \cup {Scalar("int", Int_(a)) : a \in {0, 1}}
  \cup {Scalar("np.float64", Rat(a)) : a \in {0, 4}}
  \cup {NdArray("float64", v) : v \in SeqsUpTo({Rat(0), Rat(4)}, MaxLen)}
  \cup {NdArray("int64", <<Int_(0)>>)}

-----------------------------------------------------------------------------
(* The state machine: one action per function of the module. *)

Init ==
  /\ fn = "none"
  /\ args = <<>>
  /\ out = Ok(<<>>, <<>>)

CallSignificanceFromPvalue ==
  /\ fn = "none"
  /\ \E pvalue \in PvalueInputs :
      /\ fn' = "significance_from_pvalue"
      /\ args' = <<pvalue>>
      /\ out' = significance_from_pvalue(pvalue)

CallPvalueFromSignificance ==
  /\ fn = "none"
  /\ \E zscore \in ZscoreInputs :
      /\ fn' = "pvalue_from_significance"
      /\ args' = <<zscore>>
      /\ out' = pvalue_from_significance(zscore)

CallSignificance ==
  /\ fn = "none"
  /\ \E n \in CountInputs, b \in BackgroundInputs, alpha \in AlphaInputs,
       k \in KInputs :
      /\ Broadcastable(n, k)
      /\ fn' = "significance"
      /\ args' = <<n, b, alpha, k>>
      /\ out' = significance(n, b, alpha, k)

CallUncertaintiesRate ==
  /\ fn = "none"
  /\ \E k \in QuantileCountInputs, q \in QInputs, exposure \in ExposureInputs :
      /\ fn' = "uncertainties_rate"
      /\ args' = <<k, q, exposure>>
      /\ out' = uncertainties_rate(k, q, exposure)

CallUncertaintiesFraction ==
  /\ fn = "none"
  /\ \E k \in QuantileCountInputs, n \in TrialInputs, q \in QInputs :
      /\ fn' = "uncertainties_fraction"
      /\ args' = <<k, n, q>>
      /\ out' = uncertainties_fraction(k, n, q)

CallPosterior ==
  /\ fn = "none"
  /\ \E rate \in RateInputs, n \in {0, MaxN}, b \in {0, MaxB},
       alpha \in PosteriorAlphaInputs, exposure \in ExposureInputs :
      /\ fn' = "posterior"
      /\ args' = <<rate, Scalar("int", Int_(n)), Scalar("int", Int_(b)), alpha,
                   exposure>>
      /\ out' = posterior(rate, Scalar("int", Int_(n)), Scalar("int", Int_(b)),
                          alpha, exposure)

RunTestSig ==
  /\ fn = "none"
  /\ \E s \in TestSigInputs :
      /\ fn' = "test_sig"
      /\ args' = <<s>>
      /\ out' = test_sig(s)

RunTestP ==
  /\ fn = "none"
  /\ \E p \in TestPInputs :
      /\ fn' = "test_p"
      /\ args' = <<p>>
      /\ out' = test_p(p)

\* the caller takes the outcome; the module keeps nothing between calls
Return ==
  /\ fn # "none"
  /\ fn' = "none"
  /\ args' = <<>>
  /\ out' = Ok(<<>>, <<>>)

Next ==
  \/ CallSignificanceFromPvalue
  \/ CallPvalueFromSignificance
  \/ CallSignificance
  \/ CallUncertaintiesRate
  \/ CallUncertaintiesFraction
  \/ CallPosterior
  \/ RunTestSig
  \/ RunTestP
  \/ Return

Spec == Init /\ [][Next]_vars

-----------------------------------------------------------------------------
(* The claims, as properties of the last call. *)

\* C1: significance_from_pvalue fails with ArithmeticError, returning nothing
\* for any element, whenever at least one element of pvalue is <= tiny; when
\* every element exceeds tiny it raises nothing and returns -ndtri(pvalue)
\* element by element.
C1_ArithmeticErrorIffSomeElementAtMostTiny ==
  fn = "significance_from_pvalue" =>
    LET pvalue == args[1].v
        below(x) == \/ x.c \in {"neg", "zero"}
                    \/ x.c = "lo" /\ x.e < -1049
                    \/ x.c = "lo" /\ x.e = -1049 /\ x.m <= MantLo
        above(x) == \/ x.c \in {"hi", "one", "gt1"}
                    \/ x.c = "lo" /\ x.e > -1049
                    \/ x.c = "lo" /\ x.e = -1049 /\ x.m > MantLo
    IN /\ (\E i \in DOMAIN pvalue : below(pvalue[i]))
            => out.status = "ArithmeticError" /\ out.v = <<>>
       /\ (\A i \in DOMAIN pvalue : above(pvalue[i]))
            => /\ out.status = "ok"
               /\ Len(out.v) = Len(pvalue)
               /\ \A i \in DOMAIN pvalue : out.v[i] = Neg(ndtri(pvalue[i]))

\* an array holding tiny itself next to a large enough element is refused
\* whole
C1_MixedArrayRefused ==
  /\ fn = "significance_from_pvalue"
  /\ args[1].kind = "ndarray"
  /\ \E i, j \in DOMAIN args[1].v :
       args[1].v[i] = tiny /\ args[1].v[j] = RowLo(2)
  /\ \A i \in DOMAIN args[1].v : args[1].v[i] \in {tiny, RowLo(2)}
  /\ out.status = "ArithmeticError"
  /\ out.v = <<>>

\* C2: the two conversions are inverses in both orders: for z in [-7, 7],
\* significance_from_pvalue(pvalue_from_significance(z)) is within 1e-5 of z,
\* and for p in (0, 1) above the underflow guard,
\* pvalue_from_significance(significance_from_pvalue(p)) is within 1e-5 of p;
\* for scalars and element by element for arrays.
C2_RoundTripsWithinTolerance ==
  /\ fn = "test_sig" /\ (\A i \in DOMAIN args[1].v : Abs(args[1].v[i].m) <= 7 * Micro)
       => /\ out.status = "ok"
          /\ Len(out.v) = Len(args[1].v)
          /\ \A i \in DOMAIN out.v :
               /\ out.v[i].c = "fix"
               /\ Abs(out.v[i].m - args[1].v[i].m) <= AtolMicro
  /\ fn = "test_p" /\ (\A i \in DOMAIN args[1].v :
                         \/ args[1].v[i].c = "hi"
                         \/ args[1].v[i].e > -1049
                         \/ args[1].v[i].e = -1049 /\ args[1].v[i].m > MantLo)
       => /\ out.status = "ok"
          /\ Len(out.v) = Len(args[1].v)
          /\ \A i \in DOMAIN out.v :
               /\ IsProb(out.v[i])
               /\ Abs(ToFix30(out.v[i]) - ToFix30(args[1].v[i])) <= Atol30

\* an array reaching the end of the domain, z = -7, comes back
C2_ArrayWithMinusSevenComesBack ==
  /\ fn = "test_sig"
  /\ args[1].kind = "ndarray"
  /\ Len(args[1].v) > 1
  /\ \E i \in DOMAIN args[1].v : args[1].v[i] = Fix(-7 * Micro)
  /\ \E i \in DOMAIN args[1].v : args[1].v[i] = Fix(Micro)
  /\ out.status = "ok"
  /\ \E i \in DOMAIN out.v : out.v[i].m < -6 * Micro

\* C3: with k < 0, significance(n, b, alpha, k) is
\* significance_from_pvalue(p) for p = P(X >= n), the Poisson tail that
\* includes the outcome X = n, under the mean alpha * b.
C3_TailIncludesObservedCount ==
  fn = "significance" /\ ~TruthRaises(args[4]) /\ Quarters(args[4].v[1]) < 0 =>
    LET n == args[1]
        muQ == Quarters(args[3].v[1]) * args[2].v[1].m
        p == [i \in DOMAIN n.v |-> poisson_sf(n.v[i].m - 1, muQ)]
        r == significance_from_pvalue(PV(n.kind, "float64", p))
    IN out.status = r.status /\ out.v = r.v

\* C4: with k >= 0, significance(n, b, alpha, k) is
\* sign * li_ma_significance(n, b, alpha * (k + 1)) with sign = +1 exactly
\* when n >= alpha * b, the unscaled expectation, so the result is >= 0
\* when n >= alpha * b and <= 0 when n < alpha * b, and
\* significance_from_pvalue is not called.
C4_SignedLiMaWithScaledAlpha ==
  fn = "significance" /\ ~TruthRaises(args[4]) /\ Quarters(args[4].v[1]) >= 0 =>
    LET n == args[1].v
        b == args[2].v[1].m
        alphaQ == Quarters(args[3].v[1])
        kQ == Quarters(args[4].v[1])
        \* alpha * (k + 1) in sixteenths, (alphaQ / 4) * (kQ / 4 + 1) * 16
        scaled16 == alphaQ * (kQ + 4)
    IN /\ out.status = "ok"
       /\ Len(out.v) = Len(n)
       /\ \A j \in DOMAIN out.calls : out.calls[j] # "significance_from_pvalue"
       /\ \A i \in DOMAIN n :
            LET magnitude == li_ma_significance(n[i].m, b, scaled16).m
            IN /\ magnitude >= 0
               /\ 4 * n[i].m >= alphaQ * b => out.v[i] = Fix(magnitude)
               /\ 4 * n[i].m < alphaQ * b
                    => out.v[i] = Fix(-magnitude) /\ out.v[i].m <= 0

\* an excess with k > 0: the magnitude is taken at the scaled alpha, where it
\* differs from the one at alpha itself
C4_ExcessWithPositiveK ==
  /\ fn = "significance"
  /\ args[4].kind = "scalar"
  /\ Quarters(args[4].v[1]) > 0
  /\ args[2].v[1].m > 0
  /\ out.status = "ok"
  /\ \E i \in DOMAIN out.v :
       /\ out.v[i].m > 0
       /\ out.v[i].m # li_ma_significance(args[1].v[i].m, args[2].v[1].m,
                                          4 * Quarters(args[3].v[1])).m

\* C5: uncertainties_rate and uncertainties_fraction fail with an
\* AssertionError and return nothing whenever a count argument is not
\* integer-typed (an integer scalar or an array of an integer dtype),
\* whenever an element of q is outside (0, 1), or whenever some k > n; with
\* none of these present they raise no AssertionError.
C5_AssertionErrorIffViolation ==
  LET IntegerType(x) ==
        \/ x.kind = "scalar" /\ x.dtype \in {"int", "np.int64", "np.int32"}
        \/ x.kind = "ndarray" /\ x.dtype \in {"int64", "int32"}
      Outside(q) == \E i \in DOMAIN q.v : q.v[i].c \in {"neg", "zero", "one", "gt1"}
      NoNaN(q) == \A i \in DOMAIN q.v : q.v[i].c # "nan"
      Exceeds(k, n) ==
        \E i \in 1 .. Max(Len(k.v), Len(n.v)) : At(k, i).m > At(n, i).m
      Refused == out.status = "AssertionError" /\ out.v = <<>>
  IN /\ fn = "uncertainties_rate" /\ NoNaN(args[2])
          => (Refused <=> ~IntegerType(args[1]) \/ Outside(args[2]))
     /\ fn = "uncertainties_fraction" /\ NoNaN(args[3])
           /\ Broadcastable(args[1], args[2])
          => (Refused <=> \/ ~IntegerType(args[1])
                          \/ ~IntegerType(args[2])
                          \/ Outside(args[3])
                          \/ Exceeds(args[1], args[2]))

\* C6: for non-negative integer k and q in (0, 1) every value of
\* uncertainties_rate(k, q) with the default exposure is > 0, and for
\* non-negative integers k <= n every value of uncertainties_fraction(k, n, q)
\* is in [0, 1].
C6_QuantilesInsideTheirRange ==
  LET NonNegative(k) == \A i \in DOMAIN k.v : k.v[i].m >= 0
  IN /\ fn = "uncertainties_rate" /\ out.status = "ok" /\ NonNegative(args[1])
           /\ args[3] = Scalar("float", Rat(4))
          => /\ Len(out.v) = Max(Len(args[1].v), Len(args[2].v))
             /\ \A i \in DOMAIN out.v : out.v[i].c = "fix" /\ out.v[i].m > 0
     /\ fn = "uncertainties_fraction" /\ out.status = "ok" /\ NonNegative(args[1])
          => /\ Len(out.v) >= Max(Len(args[1].v), Len(args[2].v))
             /\ \A i \in DOMAIN out.v :
                  out.v[i].c = "fix" /\ out.v[i].m >= 0 /\ out.v[i].m <= Micro

\* the rate for k = 0 at a quantile level q above 1/2, where the quantile is
\* nearest to 0
C6_RateForZeroCounts ==
  /\ fn = "uncertainties_rate"
  /\ args[1] = Scalar("int", Int_(0))
  /\ args[2].kind = "scalar"
  /\ args[2].v[1].c = "hi"
  /\ args[3] = Scalar("float", Rat(4))
  /\ out.status = "ok"
  /\ out.v[1].m > 0

\* C7: with the default q, uncertainties_rate(k) and
\* uncertainties_fraction(k, n) return, for an integer k >= 0 (and n >= k),
\* three values in the order (median, lower, upper):
\* result[1] <= result[0] <= result[2].
C7_DefaultOrderMedianLowerUpper ==
  /\ fn = "uncertainties_rate" /\ args[2] = DefaultQ
       /\ args[1].kind = "scalar" /\ args[1].v[1].m >= 0 /\ out.status = "ok"
       => /\ Len(out.v) = 3
          /\ out.v[2].m <= out.v[1].m
          /\ out.v[1].m <= out.v[3].m
  /\ fn = "uncertainties_fraction" /\ args[3] = DefaultQ
       /\ args[1].kind = "scalar" /\ args[1].v[1].m >= 0
       /\ args[2].kind = "scalar" /\ out.status = "ok"
       => /\ Len(out.v) = 3
          /\ out.v[2].m <= out.v[1].m
          /\ out.v[1].m <= out.v[3].m

\* C8: significance accepts k as an array of the shape of n with more than
\* one element and returns a result of that shape, raising nothing.
C8_ArrayKAccepted ==
  fn = "significance" /\ args[4].kind = "ndarray"
    /\ Len(args[4].v) > 1 /\ Len(args[4].v) = Len(args[1].v)
    => out.status = "ok" /\ Len(out.v) = Len(args[1].v)

\* C9 as stated: in the k < 0 regime significance never returns a negative
\* value.
C9_NeverNegative ==
  fn = "significance" /\ ~TruthRaises(args[4]) /\ Quarters(args[4].v[1]) < 0
    /\ out.status = "ok"
    => \A i \in DOMAIN out.v : out.v[i].c = "fix" /\ out.v[i].m >= 0

\* C9, amended: in the k < 0 regime the result is negative exactly when the
\* tail probability P(X > n) under the mean alpha * b exceeds 1/2, that is
\* when P(X <= n) < 1/2, and is >= 0 otherwise.
C9_NegativeIffTailAboveHalf ==
  fn = "significance" /\ ~TruthRaises(args[4]) /\ Quarters(args[4].v[1]) < 0
    /\ out.status = "ok"
    => LET muQ == Quarters(args[3].v[1]) * args[2].v[1].m
       IN /\ Len(out.v) = Len(args[1].v)
          /\ \A i \in DOMAIN out.v :
               /\ out.v[i].c = "fix"
               /\ out.v[i].m < 0
                    <=> 2 * PoissonCdf30(args[1].v[i].m, muQ) < One30

\* no counts observed under a mean of 1: a negative significance
C9_DeficitIsNegative ==
  /\ fn = "significance"
  /\ args[1] = Scalar("int", Int_(0))
  /\ Quarters(args[3].v[1]) * args[2].v[1].m = 4
  /\ Quarters(args[4].v[1]) < 0
  /\ out.status = "ok"
  /\ out.v[1].m < 0

\* C10 as stated: posterior raises no error with alpha = 0, scalar or array:
\* the divisions give a non-finite value and the call returns a density.
C10_ZeroAlphaNeverRaises ==
  fn = "posterior" /\ Broadcastable(args[1], args[4])
    /\ (\E i \in DOMAIN args[4].v : Quarters(args[4].v[i]) = 0)
    => /\ out.status = "ok"
       /\ \E i \in DOMAIN out.aux : out.aux[i].c \in {"pinf", "ninf", "nan"}

\* C10, amended: for numeric rate and alpha of compatible shapes, posterior
\* ends in an error exactly when alpha is a Python scalar (int or float)
\* equal to 0, with ZeroDivisionError; with a zero in a NumPy scalar or
\* array the divisions give an infinity that is passed on to the special
\* functions and the call returns a density per element.
C10_RaisesIffPythonScalarZero ==
  fn = "posterior" /\ Broadcastable(args[1], args[4]) =>
    LET alpha == args[4]
        l == Max(Len(args[1].v), Len(alpha.v))
        pythonZero == /\ alpha.kind = "scalar"
                      /\ alpha.dtype \in {"int", "float"}
                      /\ alpha.v[1].m = 0
    IN /\ pythonZero => out.status = "ZeroDivisionError" /\ out.v = <<>>
       /\ ~pythonZero
            => /\ out.status = "ok"
               /\ Len(out.v) = l
               /\ \A i \in 1 .. l :
                    At(alpha, i).m = 0
                      => /\ out.aux[i].c \in {"pinf", "nan"}
                         /\ out.aux[l + i].c = "ninf"

\* an array alpha holding a zero: the call returns, having passed infinities
\* to the special functions
C10_ArrayZeroReturns ==
  /\ fn = "posterior"
  /\ args[4].kind = "ndarray"
  /\ Len(args[4].v) > 1
  /\ \E i \in DOMAIN args[4].v : args[4].v[i].m = 0
  /\ out.status = "ok"
  /\ \E i \in DOMAIN out.aux : out.aux[i] = PInf
  /\ \E i \in DOMAIN out.aux : out.aux[i] = NInf

====
